---- MODULE Spec2Model ----
(***************************************************************************)
(* The CryptoMiniSat adapter of src/sage/sat/solvers/cryptominisat.py as a *)
(* state machine: the object's fields (_vars, _clauses, _solver), one      *)
(* action per method call, and the result of the last call.  The native    *)
(* pycryptosat Solver the adapter forwards to is modelled by what the      *)
(* adapter's calls and doctests rely on: it stores the clauses it accepts, *)
(* numbers its variables 1..max index, and solve() returns                 *)
(* (True, (None, v1, ..., vn)), (False, None) or, when the conflict limit  *)
(* stops the search, (None, None).                                         *)
(***************************************************************************)
EXTENDS Integers, Sequences, FiniteSets, TLC

\* Bounds of the model: variable indices, literals recorded in all clauses
\* together (and per call), recorded clauses, assumptions per solve call, and
\* conflicts a search may run into.
MaxVar == 2
MaxLits == 2
MaxClauses == 2
MaxAssumptions == 1
MaxConflicts == 1

\* sys.maxint, the conflict limit used when confl_limit is None.
maxint == 2147483647

\* Python's None, True and False where a value may be either None or a bool.
None == "None"
PyTrue == "True"
PyFalse == "False"
PyBool(b) == IF b THEN PyTrue ELSE PyFalse

VARIABLES
    self_vars,      \* self._vars: the set of variable indices seen
    self_clauses,   \* self._clauses: list of (lits, is_xor, rhs)
    self_solver,    \* self._solver: the native solver's state
    ret,            \* the outcome of the last method call
    added,          \* history: the add calls that returned normally, in order
    varMax,         \* history: the greatest value var() has returned, 0 if none
    exported,       \* history: what clauses() first returned since the last add call
    nativeRaised    \* history: some add call ended with the native solver raising

vars == <<self_vars, self_clauses, self_solver, ret, added, varMax, exported,
          nativeRaised>>

Abs(i) == IF i < 0 THEN -i ELSE i
SetMax(S) == CHOOSE m \in S : \A x \in S : x <= m
Range(s) == {s[i] : i \in 1..Len(s)}

\* ---------------------------------------------------------------- inputs

\* A literal as the caller passes it: a Python int or a Sage Integer.
IntKinds == {"int", "Integer"}
LitValues == (-MaxVar)..MaxVar
ValueSeqs == UNION {[1..k -> LitValues] : k \in 0..MaxLits}
InputLits == {[i \in 1..Len(s) |-> <<kind, s[i]>>] : s \in ValueSeqs, kind \in IntKinds}
\* The literals recorded so far, all clauses together.
RECURSIVE TotalLits(_)
TotalLits(cls) == IF cls = <<>> THEN 0 ELSE Len(Head(cls)[1]) + TotalLits(Tail(cls))

\* int(i): the plain Python integer of a literal.
ToInt(e) == e[2]
\* e == 0 in Python, for either kind of integer.
IsZero(e) == e[2] = 0
\* A test of the first literal only, where the code tests them all.
ZeroInFirst(lits) == Len(lits) > 0 /\ IsZero(lits[1])
\* 0 in lits
ZeroIn(lits) == \E i \in 1..Len(lits) : IsZero(lits[i])
\* tuple(int(i) for i in lits)
IntTuple(lits) == [i \in 1..Len(lits) |-> ToInt(lits[i])]
\* abs(i) for i in lits
AbsSet(lits) == {Abs(lits[i]) : i \in 1..Len(lits)}

\* ---------------------------------------------------------- native solver

\* Solver(verbose, confl_limit, threads): empty, with the given conflict limit.
NewSolver(confl_limit) ==
    [clauses |-> <<>>, nvars |-> 0, confl_limit |-> confl_limit]

\* The native add_xor_clause takes positive integers only and raises ValueError
\* on an inverted literal; the native add_clause takes any nonzero integer.  A
\* call that raises stores nothing.
NativeRejects(lits, is_xor) ==
    is_xor /\ \E i \in 1..Len(lits) : lits[i] < 0

\* The native solver stores the clause and grows its variables to the highest index.
NativeAdd(solver, lits, is_xor, rhs) ==
    [solver EXCEPT !.clauses = Append(@, <<lits, is_xor, rhs>>),
                   !.nvars = SetMax({@} \cup AbsSet(lits))]

LitTrue(a, l) == IF l > 0 THEN a[l] ELSE ~a[-l]
RECURSIVE Parity(_, _, _)
Parity(a, lits, i) ==
    IF i > Len(lits) THEN FALSE
    ELSE (LitTrue(a, lits[i]) # Parity(a, lits, i + 1))
ClauseHolds(a, c) ==
    IF c[2] THEN Parity(a, c[1], 1) = (c[3] = PyTrue)
    ELSE \E i \in 1..Len(c[1]) : LitTrue(a, c[1][i])
\* The assignments of variables 1..nvars that satisfy every stored clause.
Models(solver) ==
    {a \in [1..solver.nvars -> BOOLEAN] :
        \A k \in 1..Len(solver.clauses) : ClauseHolds(a, solver.clauses[k])}
\* The solution tuple: index 0 is None, index i the value of variable i.
SolutionTuple(a, n) == [j \in 1..(n + 1) |-> IF j = 1 THEN None ELSE PyBool(a[j - 1])]

\* solve(): (satisfiable, assignments) when the search ran into `conflicts`
\* conflicts and settled on model `a` when there is one.
NativeSolve(solver, conflicts, a) ==
    IF conflicts > solver.confl_limit THEN <<None, <<>>>>
    ELSE IF Models(solver) = {} THEN <<PyFalse, <<>>>>
    ELSE <<PyTrue, SolutionTuple(a, solver.nvars)>>

\* ------------------------------------------------------------ the adapter

\* The outcome of a call: what it returned (kind, n, tup, lst) or raised (kind,
\* msg), the local `satisfiable` of __call__, and what is known of the call:
\* hasZero (the literals passed held a 0), unsatUnder (see UnsatUnder), prev
\* (the greatest value var() had returned before this call) and again (clauses()
\* had been called since the last add call).
NoRet ==
    [op |-> "init", kind |-> "None", n |-> 0, tup |-> <<>>, lst |-> <<>>,
     msg |-> "", satisfiable |-> None, hasZero |-> FALSE, unsatUnder |-> FALSE,
     prev |-> 0, again |-> FALSE]

NoExport == [set |-> FALSE, lst |-> <<>>]

\* var(): 1 when no variable is known, else the highest index plus one.
VarValue(vs) == IF Cardinality(vs) = 0 THEN 1 ELSE SetMax(vs) + 1

\* The highest index, where the code counts the indices.
NVarsMax(vs) == IF vs = {} THEN 0 ELSE SetMax(vs)
\* nvars(): len(self._vars)
NVars(vs) == Cardinality(vs)

\* self._vars.update(abs(i) for i in lits)
UpdateVars(vs, lits) == vs \cup AbsSet(lits)

\* An insert at the front, where the code appends.
RecordClauseFront(cls, lits, is_xor, rhs) == <<<<lits, is_xor, rhs>>>> \o cls
\* self._clauses.append((lits, is_xor, rhs))
RecordClause(cls, lits, is_xor, rhs) == Append(cls, <<lits, is_xor, rhs>>)

\* __call__: assignments if satisfiable (truthy), else False.
CallResult(satisfiable, assignments) ==
    IF satisfiable = PyTrue
    THEN [kind |-> "tuple", tup |-> assignments]
    ELSE [kind |-> "False", tup |-> <<>>]

\* The constructor's confl_limit: None (sys.maxint) or a number of conflicts.
ConflLimits == {maxint} \cup 0..(MaxConflicts - 1)

Init ==
    /\ self_vars = {}
    /\ self_clauses = <<>>
    /\ \E confl_limit \in ConflLimits : self_solver = NewSolver(confl_limit)
    /\ ret = NoRet
    /\ added = <<>>
    /\ varMax = 0
    /\ exported = NoExport
    /\ nativeRaised = FALSE

Var ==
    LET v == VarValue(self_vars) IN
    /\ ret' = [NoRet EXCEPT !.op = "var", !.kind = "int", !.n = v, !.prev = varMax]
    /\ varMax' = IF v > varMax THEN v ELSE varMax
    /\ UNCHANGED <<self_vars, self_clauses, self_solver, added, exported, nativeRaised>>

Nvars ==
    /\ ret' = [NoRet EXCEPT !.op = "nvars", !.kind = "int", !.n = NVars(self_vars)]
    /\ UNCHANGED <<self_vars, self_clauses, self_solver, added, varMax, exported,
                   nativeRaised>>

\* add_clause(lits)
AddClause ==
    \E lits \in InputLits :
        LET here == [NoRet EXCEPT !.op = "add_clause",
                                  !.hasZero = \E i \in 1..Len(lits) : lits[i][2] = 0]
        IN
        /\ exported' = NoExport
        /\ UNCHANGED varMax
        /\ IF ZeroIn(lits)
           THEN /\ ret' = [here EXCEPT !.kind = "ValueError",
                                       !.msg = "0 should not appear in the clause"]
                /\ UNCHANGED <<self_vars, self_clauses, self_solver, added, nativeRaised>>
           ELSE LET ints == IntTuple(lits) IN
                /\ Len(self_clauses) < MaxClauses
                /\ TotalLits(self_clauses) + Len(lits) <= MaxLits
                /\ self_vars' = UpdateVars(self_vars, ints)
                /\ IF NativeRejects(ints, FALSE)
                   THEN /\ ret' = [here EXCEPT !.kind = "ValueError", !.msg = "native"]
                        /\ nativeRaised' = TRUE
                        /\ UNCHANGED <<self_clauses, self_solver, added>>
                   ELSE /\ self_solver' = NativeAdd(self_solver, ints, FALSE, None)
                        /\ self_clauses' = RecordClause(self_clauses, ints, FALSE, None)
                        /\ ret' = here
                        /\ added' = Append(added,
                                [op |-> "add_clause", rhs |-> None,
                                 vals |-> [i \in 1..Len(lits) |-> lits[i][2]]])
                        /\ UNCHANGED nativeRaised

\* add_xor_clause(lits, rhs)
AddXorClause ==
    \E lits \in InputLits, rhs \in {PyTrue, PyFalse} :
        LET here == [NoRet EXCEPT !.op = "add_xor_clause",
                                  !.hasZero = \E i \in 1..Len(lits) : lits[i][2] = 0]
        IN
        /\ exported' = NoExport
        /\ UNCHANGED varMax
        /\ IF ZeroIn(lits)
           THEN /\ ret' = [here EXCEPT !.kind = "ValueError",
                                       !.msg = "0 should not appear in the clause"]
                /\ UNCHANGED <<self_vars, self_clauses, self_solver, added, nativeRaised>>
           ELSE LET ints == IntTuple(lits) IN
                /\ Len(self_clauses) < MaxClauses
                /\ TotalLits(self_clauses) + Len(lits) <= MaxLits
                /\ self_vars' = UpdateVars(self_vars, ints)
                /\ IF NativeRejects(ints, TRUE)
                   THEN /\ ret' = [here EXCEPT !.kind = "ValueError", !.msg = "native"]
                        /\ nativeRaised' = TRUE
                        /\ UNCHANGED <<self_clauses, self_solver, added>>
                   ELSE /\ self_solver' = NativeAdd(self_solver, ints, TRUE, rhs)
                        /\ self_clauses' = RecordClause(self_clauses, ints, TRUE, rhs)
                        /\ ret' = here
                        /\ added' = Append(added,
                                [op |-> "add_xor_clause", rhs |-> rhs,
                                 vals |-> [i \in 1..Len(lits) |-> lits[i][2]]])
                        /\ UNCHANGED nativeRaised

\* The assumptions a caller may pass to __call__: None, or a tuple of literals.
Assumptions ==
    {[given |-> FALSE, lits |-> <<>>]}
        \cup {[given |-> TRUE, lits |-> s] :
                s \in {t \in ValueSeqs : /\ Len(t) <= MaxAssumptions
                                         /\ \A i \in 1..Len(t) : t[i] # 0}}

\* Observation for the outcome of a call: the clauses are satisfiable, and not
\* together with the assumptions the caller passed.
UnsatUnder(solver, asm) ==
    /\ Models(solver) # {}
    /\ ~ \E a \in [1..MaxVar -> BOOLEAN] :
            /\ \A k \in 1..Len(solver.clauses) : ClauseHolds(a, solver.clauses[k])
            /\ \A i \in 1..Len(asm) : LitTrue(a, asm[i])

\* A solve call that records the empty clause it learnt from an unsatisfiable
\* instance, where the code leaves self._clauses alone.
CallLearns ==
    \E assumptions \in Assumptions,
       conflicts \in 0..(IF Len(self_solver.clauses) = 0 THEN 0 ELSE MaxConflicts),
       a \in IF Models(self_solver) = {} THEN {<<>>} ELSE Models(self_solver) :
        LET res == NativeSolve(self_solver, conflicts, a)
            out == CallResult(res[1], res[2])
        IN
        /\ ret' = [NoRet EXCEPT !.op = "call", !.kind = out.kind, !.tup = out.tup,
                                !.satisfiable = res[1],
                                !.unsatUnder = assumptions.given
                                    /\ UnsatUnder(self_solver, assumptions.lits)]
        /\ self_clauses' = IF res[1] = PyFalse /\ Len(self_clauses) < MaxClauses
                           THEN Append(self_clauses, <<<<>>, FALSE, None>>)
                           ELSE self_clauses
        /\ UNCHANGED <<self_vars, self_solver, added, varMax, exported, nativeRaised>>

\* __call__(assumptions): the assumptions are not passed on to solve().
Call ==
    \E assumptions \in Assumptions,
       conflicts \in 0..(IF Len(self_solver.clauses) = 0 THEN 0 ELSE MaxConflicts),
       a \in IF Models(self_solver) = {} THEN {<<>>} ELSE Models(self_solver) :
        LET res == NativeSolve(self_solver, conflicts, a)
            out == CallResult(res[1], res[2])
        IN
        /\ ret' = [NoRet EXCEPT !.op = "call", !.kind = out.kind, !.tup = out.tup,
                                !.satisfiable = res[1],
                                !.unsatUnder = assumptions.given
                                    /\ UnsatUnder(self_solver, assumptions.lits)]
        /\ UNCHANGED <<self_vars, self_clauses, self_solver, added, varMax, exported,
                       nativeRaised>>

\* clauses(filename): the list itself, or None after the DIMACS file is written.
Clauses ==
    \E to_file \in BOOLEAN :
        IF ~to_file
        THEN /\ ret' = [NoRet EXCEPT !.op = "clauses", !.kind = "list",
                                     !.lst = self_clauses, !.again = exported.set]
             /\ exported' = IF exported.set THEN exported
                            ELSE [set |-> TRUE, lst |-> self_clauses]
             /\ UNCHANGED <<self_vars, self_clauses, self_solver, added, varMax,
                            nativeRaised>>
        ELSE /\ ret' = [NoRet EXCEPT !.op = "clauses_file"]
             /\ UNCHANGED <<self_vars, self_clauses, self_solver, added, varMax,
                            exported, nativeRaised>>

Next == Var \/ Nvars \/ AddClause \/ AddXorClause \/ Call \/ Clauses

Spec == Init /\ [][Next]_vars

\* ------------------------------------------------------------- properties

AddOps == {"add_clause", "add_xor_clause"}

\* The literals of the add calls that have returned normally.
AddedLits == UNION {Range(added[k].vals) : k \in 1..Len(added)}

\* What clauses() owes the caller for an add call that returned normally.
Expected(e) ==
    IF e.op = "add_clause" THEN <<e.vals, FALSE, None>> ELSE <<e.vals, TRUE, e.rhs>>

\* C1: an add_clause or add_xor_clause call whose literals contain 0 raises
\* ValueError and leaves the variable set, the clause list and the native
\* solver's clause store as they were.
C1_ZeroLiteralRejectedAtomically ==
    [][(ret'.op \in AddOps /\ ret'.hasZero) =>
            /\ ret'.kind = "ValueError"
            /\ UNCHANGED <<self_vars, self_clauses, self_solver>>]_vars

\* A zero literal was rejected on a solver that already holds clauses.
C1_Witness ==
    /\ ret.op = "add_xor_clause" /\ ret.hasZero /\ ret.kind = "ValueError"
    /\ Len(self_clauses) = 2 /\ self_vars # {}

\* C2: var() returns 1 on an empty solver, a value strictly greater than every
\* value it returned before, and strictly greater than every variable index of
\* a clause added so far.
C2_VarReturnsNew ==
    ret.op = "var" =>
        /\ (self_vars = {} => ret.n = 1)
        /\ ret.n > ret.prev
        /\ \A l \in AddedLits : ret.n > Abs(l)

\* C3: after successful add calls only, nvars() is at least the greatest
\* |literal| added so far.
C3_NvarsCoversMaxLiteral ==
    (ret.op = "nvars" /\ ~nativeRaised) => \A l \in AddedLits : ret.n >= Abs(l)

C6_SolutionHasNvarsEntries ==
    (ret.op = "call" /\ ret.kind = "tuple") =>
        /\ Len(ret.tup) = NVars(self_vars) + 1
        /\ ret.tup[1] = None
        /\ \A i \in 2..Len(ret.tup) : ret.tup[i] \in {PyTrue, PyFalse}

\* C7: a solve call the conflict limit stopped (the native solver answered
\* neither satisfiable nor unsatisfiable) does not return False, the value for
\* a proven unsatisfiable instance.
C7_AbortedDiffersFromUnsat ==
    (ret.op = "call" /\ ret.satisfiable = None) => ret.kind # "False"

\* C8: a solve call whose assumptions are unsatisfiable together with the
\* (satisfiable) clauses returns False.
C8_AssumptionsForced ==
    (ret.op = "call" /\ ret.unsatUnder) => ret.kind = "False"

\* C9: a clauses() call returns what the first clauses() call since the last
\* add call returned, whatever was called in between.
C9_ExportIdempotent ==
    ret.op = "clauses" => (exported.set /\ ret.lst = exported.lst)

\* clauses() was called again with no add call since the earlier call.
C9_Witness ==
    ret.op = "clauses" /\ ret.again /\ Len(ret.lst) = 2 /\ varMax > 0

\* C10: the recorded clause list is the native solver's clause store, and the
\* variable set is exactly the variables of the recorded clauses.
C10_BookkeepingConsistent ==
    /\ self_clauses = self_solver.clauses
    /\ self_vars = UNION {AbsSet(self_clauses[k][1]) : k \in 1..Len(self_clauses)}

====
